---- MODULE Spec2Model ----
(***************************************************************************)
(* Model of src/data-collection-code.py: the DataCollector teleoperation   *)
(* and data-logging loop (keyboard / controller arbitration, actuator      *)
(* pulses, decimated frame capture, recording session lifecycle).          *)
(*                                                                         *)
(* Numbers.  The program computes with floats; the model keeps every       *)
(* quantity as an exact integer multiple of a fixed unit:                  *)
(*   raw axes, steering_axis   1/20      (AxisUnit = 1.0)                  *)
(*   throttle_axis             1/40      (2 * AxisUnit = 1.0)              *)
(*   throttle_key              1/8       (KeyUnit = 1.0, -5 = -0.625)      *)
(*   steering_ms_out           1/200000 ms                                 *)
(*   throttle_ms_out           1/32000 ms                                  *)
(*   duty values               the ms unit above, times freq               *)
(***************************************************************************)
EXTENDS Integers, Sequences, FiniteSets

VARIABLES
    pc,              \* position of run(): "init", the step of the tick, "cleanup", "done"
    operating,       \* run()'s local flag
    clock,           \* number of ticks begun (also the logical time of datetime.now())
    raised,          \* an exception other than KeyboardInterrupt is propagating
    cleanup_runs,    \* number of times cleanup() was called
    escaped,         \* a KeyboardInterrupt has left run() uncaught
    name_taken,      \* a session directory named after the current wall-clock second exists
    \* what pygame reports during the current tick
    keys, joy_count, axis0, axis4, button4, hat,
    \* DataCollector fields
    joystick, button_states, input_value,
    r_key_pressed,   \* "unset" until run() or get_keyboard_inputs() creates the attribute
    steering_axis, throttle_axis, throttle_key,
    steering_ms_out, throttle_ms_out,
    cam_connected, camera_running, frame_interval,
    collecting, session_dir, steering_data, frame_count,
    \* collaborators: pigpio outputs, file system
    duty_steering, duty_throttle, pin_rec, pin_rec_mode,
    dirs, files, images,
    \* observations of the run (history, not read by the program)
    prev_keys,       \* the keys held during the previous tick
    toggled,         \* toggle actions (start or stop calls) made by this tick's input step
    one_shot_ret,    \* this tick's handle_one_shot_button(4): -1 not polled, 0 False, 1 True
    seen4,           \* raw level of button 4 at the poll before this tick's: -1 none yet
    polled4,         \* raw level of button 4 at the latest poll: -1 none yet
    notice,          \* hot-plug message printed this tick
    capture_ticks,   \* frame_count values at which this session captured a frame
    capture_errors,  \* sensor read errors so far
    capture_cuts,    \* sampling captures left by a KeyboardInterrupt so far
    api_call, api_prev, api_n  \* direct method calls (SpecApi)

env_vars  == <<keys, joy_count, axis0, axis4, button4, hat>>
sess_vars == <<collecting, session_dir, steering_data, frame_count, pin_rec, dirs, files,
               capture_ticks>>
samp_vars == <<images, capture_errors, capture_cuts>>
ctl_vars  == <<joystick, button_states, input_value, r_key_pressed,
               steering_axis, throttle_axis, throttle_key>>
out_vars  == <<steering_ms_out, throttle_ms_out, duty_steering, duty_throttle>>
hist_vars == <<prev_keys, toggled, one_shot_ret, seen4, polled4, notice>>
api_vars  == <<api_call, api_prev, api_n>>
run_vars  == <<pc, operating, clock, cleanup_runs, escaped>>
cam_vars  == <<cam_connected, camera_running, frame_interval, pin_rec_mode>>
vars == <<run_vars, raised, name_taken, env_vars, sess_vars, samp_vars, ctl_vars, out_vars,
          hist_vars, api_vars, cam_vars>>

----------------------------------------------------------------------------
\* Bounds of the model

MaxTicks == 4          \* ticks of the main loop explored by Spec
MaxBurstTicks == 13    \* ticks of the main loop explored by SpecBurst
MaxCalls == 7          \* direct method calls explored by SpecApi
MaxPadTicks == 4       \* ticks of the main loop explored by SpecPad

\* Units and calibration (see the header for the units)
AxisUnit == 20
KeyUnit == 8
deadzone == 2                      \* 0.1
steering_ms_centered == 215000     \* 1.075
steering_ms_range == 34040         \* 0.1702
throttle_ms_centered == 43200      \* 1.35
throttle_ms_range == 1920          \* 0.06
freq == 50
KeyReverse == -5                   \* -0.625

\* Inputs of Spec: key combinations and controller readings of one tick
KeySets == { {}, {"R"}, {"RIGHT", "UP", "R"}, {"DOWN", "SPACE"} }
NoJoy == [n |-> 0, a0 |-> 0, a4 |-> 0, b4 |-> 0, hat |-> <<0, 0>>]
JoyRest  == [n |-> 1, a0 |-> 1,   a4 |-> -20, b4 |-> 0, hat |-> <<0, 0>>]
JoyDrive == [n |-> 1, a0 |-> -20, a4 |-> 20,  b4 |-> 1, hat |-> <<0, -1>>]
JoyUp    == [n |-> 1, a0 |-> 0,   a4 |-> 0,   b4 |-> 1, hat |-> <<0, 1>>]
JoyRight == [n |-> 1, a0 |-> 2,   a4 |-> 20,  b4 |-> 0, hat |-> <<1, 0>>]
JoySamples == { NoJoy, JoyRest, JoyDrive }
Intervals == {1, 2}

\* Inputs of SpecPad: the directional pad up, down, right and released, the
\* boost key
PadKeySets == { {}, {"DOWN", "SPACE"} }
PadJoySamples == { NoJoy, JoyRest, JoyDrive, JoyUp, JoyRight }

\* Inputs of SpecBurst: the record key and one steering key, no controller
BurstKeySets == { {}, {"R"}, {"LEFT"} }
BurstJoySamples == { NoJoy }
\* the default of __init__ and the value __main__ passes
BurstIntervals == {5, 10}

----------------------------------------------------------------------------
\* Pure functions

Abs(x) == IF x < 0 THEN -x ELSE x

apply_deadzone(value, dz) == IF Abs(value) < dz THEN 0 ELSE value

controller_connection_check == joy_count # 0

\* get_keyboard_inputs: a and b
KeyboardSteering(ks) ==
    AxisUnit * ((IF "RIGHT" \in ks THEN 1 ELSE 0) - (IF "LEFT" \in ks THEN 1 ELSE 0))

KeyboardThrottle(ks) ==
    2 * AxisUnit * ((IF "UP" \in ks THEN 1 ELSE 0) - (IF "DOWN" \in ks THEN 1 ELSE 0))

\* Mutant: the boost lasts only while the key is held
KeyboardBoostMomentary(ks, old) == IF "SPACE" \in ks THEN KeyUnit ELSE 0

\* get_keyboard_inputs: "if keys[pg.K_SPACE]: self.throttle_key = 1"
KeyboardBoost(ks, old) == IF "SPACE" \in ks THEN KeyUnit ELSE old

\* get_controller_inputs: get_axis(4)/2 + 0.5
ControllerThrottle(raw) == raw + AxisUnit

\* Mutant: a released pad resets the boost
DpadKeyMomentary(h, old) ==
    IF h[2] = 1 THEN KeyUnit
    ELSE IF h[2] = -1 THEN KeyReverse
    ELSE 0

\* Mutant: the reverse gear is -6.25 instead of -0.625
DpadKeyStrongReverse(h, old) ==
    IF h[2] = 1 THEN KeyUnit
    ELSE IF h[2] = -1 THEN 10 * KeyReverse
    ELSE IF h[1] = 1 \/ h[1] = -1 THEN 0
    ELSE old

\* get_controller_inputs: the D-pad chain
DpadKey(h, old) ==
    IF h[2] = 1 THEN KeyUnit
    ELSE IF h[2] = -1 THEN KeyReverse
    ELSE IF h[1] = 1 \/ h[1] = -1 THEN 0
    ELSE old

\* handle_one_shot_button: the tracked level of a button (False until tracked)
ButtonState(bs, b) == IF b \in DOMAIN bs THEN bs[b] ELSE FALSE

\* Mutant: level-triggered instead of edge-triggered
OneShotFiresLevel(bs, b, current) == current = 1

OneShotFires(bs, b, current) == current = 1 /\ ~ButtonState(bs, b)

OneShotStates(bs, b, current) ==
    [x \in DOMAIN bs \cup {b} |->
        IF x # b THEN bs[x]
        ELSE IF current = 1 /\ ~ButtonState(bs, b) THEN TRUE
        ELSE IF current = 0 /\ ButtonState(bs, b) THEN FALSE
        ELSE ButtonState(bs, b)]

\* get_keyboard_inputs: the R key
RKeyFires(ks, pressed) == "R" \in ks /\ pressed = "False"

RKeyPressed(ks, pressed) ==
    IF "R" \in ks /\ pressed = "False" THEN "True"
    ELSE IF "R" \notin ks THEN "False"
    ELSE pressed

SteeringMs(axis) == steering_ms_centered + (steering_ms_range \div AxisUnit) * axis

ThrottleMs(axis, key) ==
    throttle_ms_centered + (throttle_ms_range \div (2 * AxisUnit * KeyUnit)) * axis * key

\* ms_out / (1/freq * 1000) * 1000
Duty(ms) == ms * freq

\* Mutant: the decimation test taken before the increment
SampleDueShifted(count, interval) == (count - 1) % interval = 0

SampleDue(count, interval) == count % interval = 0

----------------------------------------------------------------------------
\* State after DataCollector.__init__ (lines 42-107); run() has not started

TypeInit ==
    /\ pc = "init" /\ operating = TRUE /\ clock = 0 /\ raised = FALSE /\ cleanup_runs = 0
    /\ escaped = FALSE /\ name_taken = FALSE
    /\ keys = {} /\ axis0 = 0 /\ axis4 = 0 /\ button4 = 0 /\ hat = <<0, 0>>
    /\ joystick = (joy_count # 0)
    /\ button_states = [b \in {} |-> FALSE]
    /\ input_value = 0 /\ r_key_pressed = "unset"
    /\ steering_axis = 0 /\ throttle_axis = 0 /\ throttle_key = 0
    /\ steering_ms_out = steering_ms_centered /\ throttle_ms_out = throttle_ms_centered
    /\ camera_running = cam_connected
    /\ collecting = FALSE /\ session_dir = 0 /\ steering_data = <<>> /\ frame_count = 0
    /\ duty_steering = 0 /\ duty_throttle = 0 /\ pin_rec = 0 /\ pin_rec_mode = "output"
    /\ dirs = 0 /\ files = <<>> /\ images = {}
    /\ prev_keys = {} /\ toggled = 0 /\ one_shot_ret = -1 /\ seen4 = -1 /\ polled4 = -1
    /\ notice = "none" /\ capture_ticks = <<>> /\ capture_errors = 0 /\ capture_cuts = 0
    /\ api_call = "none" /\ api_prev = "none" /\ api_n = 0

Init ==
    /\ joy_count \in {0, 1}
    /\ cam_connected \in BOOLEAN
    /\ frame_interval \in Intervals
    /\ TypeInit

InitBurst ==
    /\ joy_count = 0
    /\ cam_connected = TRUE
    /\ frame_interval \in BurstIntervals
    /\ TypeInit

----------------------------------------------------------------------------
\* Session lifecycle

\* A label file: steering_data.json of a session.  complete is FALSE for a file
\* that was opened for writing and whose json.dump did not finish.
LabelFile(s, log) == [session |-> s, data |-> log, complete |-> TRUE]

TornFile(s) == [session |-> s, data |-> <<>>, complete |-> FALSE]

\* create_session_directory when no directory of that name exists: the name is
\* the wall-clock second, the model numbers the directories
create_session_directory ==
    /\ session_dir' = dirs + 1
    /\ dirs' = dirs + 1
    /\ name_taken' = TRUE

\* Mutant: the "already in progress" test is missing
start_collecting_unguarded(exists) ==
    IF ~cam_connected
    THEN UNCHANGED <<sess_vars, raised>> /\ name_taken' = exists
    ELSE IF exists
    THEN raised' = TRUE /\ name_taken' = TRUE /\ UNCHANGED sess_vars
    ELSE /\ create_session_directory
         /\ collecting' = TRUE
         /\ steering_data' = <<>>
         /\ frame_count' = 0
         /\ pin_rec' = 1
         /\ capture_ticks' = <<>>
         /\ UNCHANGED <<files, raised>>

\* Mutant: the "camera not connected" test is missing
start_collecting_without_camera_test(exists) ==
    IF collecting
    THEN UNCHANGED <<sess_vars, raised>> /\ name_taken' = exists
    ELSE IF exists
    THEN raised' = TRUE /\ name_taken' = TRUE /\ UNCHANGED sess_vars
    ELSE /\ create_session_directory
         /\ collecting' = TRUE
         /\ steering_data' = <<>>
         /\ frame_count' = 0
         /\ pin_rec' = 1
         /\ capture_ticks' = <<>>
         /\ UNCHANGED <<files, raised>>

\* Mutant: the label log is not emptied
start_collecting_keeps_log(exists) ==
    IF collecting
    THEN UNCHANGED <<sess_vars, raised>> /\ name_taken' = exists
    ELSE IF ~cam_connected
    THEN UNCHANGED <<sess_vars, raised>> /\ name_taken' = exists
    ELSE IF exists
    THEN raised' = TRUE /\ name_taken' = TRUE /\ UNCHANGED sess_vars
    ELSE /\ create_session_directory
         /\ collecting' = TRUE
         /\ frame_count' = 0
         /\ pin_rec' = 1
         /\ capture_ticks' = <<>>
         /\ UNCHANGED <<files, steering_data, raised>>

\* start_collecting; exists: a session directory named after the current
\* wall-clock second exists, so that os.makedirs raises FileExistsError
start_collecting(exists) ==
    IF collecting
    THEN UNCHANGED <<sess_vars, raised>> /\ name_taken' = exists
    ELSE IF ~cam_connected
    THEN UNCHANGED <<sess_vars, raised>> /\ name_taken' = exists
    ELSE IF exists
    THEN raised' = TRUE /\ name_taken' = TRUE /\ UNCHANGED sess_vars
    ELSE /\ create_session_directory
         /\ collecting' = TRUE
         /\ steering_data' = <<>>
         /\ frame_count' = 0
         /\ pin_rec' = 1
         /\ capture_ticks' = <<>>     \* the observation restarts with the log
         /\ UNCHANGED <<files, raised>>

\* start_collecting raises
StartRaises(exists) == ~collecting /\ cam_connected /\ exists

\* start_collecting left by a KeyboardInterrupt after k of its assignments
\* (0: none, the method is entered and left at one of its tests or before line
\* 137; 1: session_dir, 2: the directories, 3: collecting, 4: steering_data,
\* 5: frame_count; the sixth, the indicator, completes it)
StartCuts == 0..5

start_collecting_interrupted(k) ==
    /\ ~collecting
    /\ k >= 1 => cam_connected
    /\ name_taken => k <= 1         \* os.makedirs would raise at the second
    /\ session_dir' = IF k = 0 THEN session_dir
                      ELSE IF name_taken THEN dirs ELSE dirs + 1
    /\ dirs' = IF k >= 2 THEN dirs + 1 ELSE dirs
    /\ name_taken' = (name_taken \/ k >= 2)
    /\ collecting' = (k >= 3)
    /\ steering_data' = IF k >= 4 THEN <<>> ELSE steering_data
    /\ capture_ticks' = IF k >= 4 THEN <<>> ELSE capture_ticks
    /\ frame_count' = IF k >= 5 THEN 0 ELSE frame_count
    /\ UNCHANGED <<pin_rec, files>>

\* Mutant: stopping leaves the indicator on
stop_collecting_leaves_indicator ==
    IF ~collecting THEN UNCHANGED sess_vars
    ELSE /\ collecting' = FALSE
         /\ files' = IF steering_data # <<>>
                     THEN Append(files, LabelFile(session_dir, steering_data))
                     ELSE files
         /\ UNCHANGED <<session_dir, steering_data, frame_count, dirs, capture_ticks, pin_rec>>

\* Mutant: the label file is written even when the log is empty
stop_collecting_always_writes ==
    IF ~collecting THEN UNCHANGED sess_vars
    ELSE /\ collecting' = FALSE
         /\ pin_rec' = 0
         /\ files' = Append(files, LabelFile(session_dir, steering_data))
         /\ UNCHANGED <<session_dir, steering_data, frame_count, dirs, capture_ticks>>

\* Mutant: the "no collection in progress" test is missing
stop_collecting_unguarded ==
    /\ collecting' = FALSE
    /\ pin_rec' = 0
    /\ files' = IF steering_data # <<>>
                THEN Append(files, LabelFile(session_dir, steering_data))
                ELSE files
    /\ UNCHANGED <<session_dir, steering_data, frame_count, dirs, capture_ticks>>

stop_collecting ==
    IF ~collecting THEN UNCHANGED sess_vars
    ELSE /\ collecting' = FALSE
         /\ pin_rec' = 0
         /\ files' = IF steering_data # <<>>
                     THEN Append(files, LabelFile(session_dir, steering_data))
                     ELSE files
         /\ UNCHANGED <<session_dir, steering_data, frame_count, dirs, capture_ticks>>

\* stop_collecting left by a KeyboardInterrupt after k of its steps
\* (0: none, the method is entered and left before line 167 has run;
\* 1: collecting, 2: the indicator, 3: the label file opened; the dump
\* completes it)
StopCuts == 0..3

stop_collecting_interrupted(k) ==
    /\ collecting
    /\ collecting' = (k = 0)
    /\ pin_rec' = IF k >= 2 THEN 0 ELSE pin_rec
    /\ files' = IF k >= 3 /\ steering_data # <<>>
                THEN Append(files, TornFile(session_dir))
                ELSE files
    /\ UNCHANGED <<session_dir, steering_data, frame_count, dirs, capture_ticks>>

\* Mutant: the "else" of the toggle is missing, so a stop is followed by a start
toggle_stop_then_start ==
    IF collecting /\ cam_connected /\ ~name_taken
    THEN /\ files' = IF steering_data # <<>>
                     THEN Append(files, LabelFile(session_dir, steering_data))
                     ELSE files
         /\ create_session_directory
         /\ collecting' = TRUE
         /\ steering_data' = <<>>
         /\ frame_count' = 0
         /\ pin_rec' = 1
         /\ capture_ticks' = <<>>
         /\ UNCHANGED raised
    ELSE IF collecting THEN stop_collecting /\ UNCHANGED <<raised, name_taken>>
    ELSE start_collecting(name_taken)

\* "if self.collecting: stop_collecting() else: start_collecting()"
toggle_collecting ==
    IF collecting THEN stop_collecting /\ UNCHANGED <<raised, name_taken>>
    ELSE start_collecting(name_taken)

ToggleRaises == StartRaises(name_taken)

\* The toggle left by a KeyboardInterrupt inside the method it calls
toggle_collecting_interrupted ==
    IF collecting
    THEN \E k \in StopCuts : stop_collecting_interrupted(k) /\ UNCHANGED name_taken
    ELSE \E k \in StartCuts : start_collecting_interrupted(k)

----------------------------------------------------------------------------
\* Frame sampler

\* Mutant: the record holds the normalised steering value of the commented-out
\* line 199 instead of the pulse
capture_frame_normalised(ok) ==
    IF ~collecting \/ ~cam_connected
    THEN UNCHANGED <<frame_count, steering_data, capture_ticks, samp_vars, raised>>
    ELSE /\ frame_count' = frame_count + 1
         /\ IF SampleDue(frame_count + 1, frame_interval)
            THEN IF ok
                    THEN /\ images' = images \cup {<<session_dir, Len(steering_data)>>}
                         /\ steering_data' = Append(steering_data,
                                [frame |-> Len(steering_data),
                                 steering_value |->
                                     (steering_ms_out - steering_ms_centered)
                                         \div (steering_ms_range \div AxisUnit),
                                 timestamp |-> clock])
                         /\ capture_ticks' = Append(capture_ticks, frame_count + 1)
                         /\ UNCHANGED <<capture_errors, capture_cuts, raised>>
                    ELSE /\ raised' = TRUE
                         /\ capture_errors' = capture_errors + 1
                         /\ UNCHANGED <<images, capture_cuts, steering_data, capture_ticks>>
            ELSE UNCHANGED <<steering_data, capture_ticks, samp_vars, raised>>

\* capture_frame; ok: camera.capture_array() returns a frame (it raises otherwise)
capture_frame(ok) ==
    IF ~collecting \/ ~cam_connected
    THEN UNCHANGED <<frame_count, steering_data, capture_ticks, samp_vars, raised>>
    ELSE /\ frame_count' = frame_count + 1
         /\ IF SampleDue(frame_count + 1, frame_interval)
            THEN IF ok
                    THEN /\ images' = images \cup {<<session_dir, Len(steering_data)>>}
                         /\ steering_data' = Append(steering_data,
                                [frame |-> Len(steering_data),
                                 steering_value |-> steering_ms_out,
                                 timestamp |-> clock])
                         /\ capture_ticks' = Append(capture_ticks, frame_count + 1)
                         /\ UNCHANGED <<capture_errors, capture_cuts, raised>>
                    ELSE /\ raised' = TRUE
                         /\ capture_errors' = capture_errors + 1
                         /\ UNCHANGED <<images, capture_cuts, steering_data, capture_ticks>>
            ELSE UNCHANGED <<steering_data, capture_ticks, samp_vars, raised>>

\* capture_frame on a sampling tick, left by a KeyboardInterrupt after k of its
\* steps (1: the counter, 2: the image file; the record completes it)
CaptureCuts == 1..2

capture_frame_interrupted(k) ==
    /\ collecting /\ cam_connected /\ SampleDue(frame_count + 1, frame_interval)
    /\ frame_count' = frame_count + 1
    /\ images' = IF k >= 2 THEN images \cup {<<session_dir, Len(steering_data)>>} ELSE images
    /\ capture_cuts' = capture_cuts + 1
    /\ UNCHANGED <<steering_data, capture_ticks, capture_errors>>

----------------------------------------------------------------------------
\* Input arbitration

\* Mutant: the axes are not zeroed at the start of input_handler
KeepAxis(old) == old

\* input_handler's "self.steering_axis = 0; self.throttle_axis = 0"
ResetAxis(old) == 0

\* get_keyboard_inputs; sa, ta: the axes when the method is entered
get_keyboard_inputs(sa, ta) ==
    /\ throttle_key' = KeyboardBoost(keys, throttle_key)
    /\ IF "R" \in keys /\ r_key_pressed = "unset"
       THEN /\ raised' = TRUE          \* AttributeError at line 262
            /\ steering_axis' = sa /\ throttle_axis' = ta
            /\ UNCHANGED <<r_key_pressed, sess_vars, toggled, name_taken>>
       ELSE /\ r_key_pressed' = RKeyPressed(keys, r_key_pressed)
            /\ IF RKeyFires(keys, r_key_pressed)
               THEN toggle_collecting /\ toggled' = toggled + 1
               ELSE UNCHANGED <<sess_vars, toggled, raised, name_taken>>
            /\ IF RKeyFires(keys, r_key_pressed) /\ ToggleRaises
               THEN steering_axis' = sa /\ throttle_axis' = ta
               ELSE /\ steering_axis' = KeyboardSteering(keys)
                    /\ throttle_axis' = KeyboardThrottle(keys)
    /\ UNCHANGED <<button_states, one_shot_ret, seen4, polled4>>

\* get_keyboard_inputs left by a KeyboardInterrupt after n of its steps
\* (0: none, 1: the boost, 2: r_key_pressed, 3: the toggle, 4: steering_axis;
\* throttle_axis completes it), or inside the toggle
KeyboardCuts == 0..4

get_keyboard_inputs_interrupted(sa, ta) ==
    /\ \E n \in KeyboardCuts :
          /\ n >= 2 => ~("R" \in keys /\ r_key_pressed = "unset")
          /\ n >= 3 => ~(RKeyFires(keys, r_key_pressed) /\ ToggleRaises)
          /\ throttle_key' = IF n >= 1 THEN KeyboardBoost(keys, throttle_key)
                             ELSE throttle_key
          /\ r_key_pressed' = IF n >= 2 THEN RKeyPressed(keys, r_key_pressed)
                              ELSE r_key_pressed
          /\ \/ /\ n >= 3 /\ RKeyFires(keys, r_key_pressed)
                /\ toggle_collecting /\ toggled' = toggled + 1
             \/ /\ n = 2 /\ RKeyFires(keys, r_key_pressed)
                /\ toggle_collecting_interrupted /\ toggled' = toggled + 1
             \/ /\ n < 3 \/ ~RKeyFires(keys, r_key_pressed)
                /\ UNCHANGED <<sess_vars, toggled, name_taken>>
          /\ steering_axis' = IF n >= 4 THEN KeyboardSteering(keys) ELSE sa
          /\ throttle_axis' = ta
    /\ UNCHANGED <<button_states, one_shot_ret, seen4, polled4>>

\* get_controller_inputs; sa, ta: the axes when the method is entered
get_controller_inputs(sa, ta) ==
    IF ~joystick
    THEN /\ steering_axis' = sa /\ throttle_axis' = ta
         /\ UNCHANGED <<throttle_key, r_key_pressed, button_states, sess_vars,
                        toggled, one_shot_ret, seen4, polled4, raised, name_taken>>
    ELSE /\ steering_axis' = apply_deadzone(axis0, deadzone)
         /\ throttle_axis' = ControllerThrottle(axis4)
         /\ button_states' = OneShotStates(button_states, 4, button4)
         /\ one_shot_ret' = IF OneShotFires(button_states, 4, button4) THEN 1 ELSE 0
         /\ seen4' = polled4 /\ polled4' = button4
         /\ IF OneShotFires(button_states, 4, button4)
            THEN toggle_collecting /\ toggled' = toggled + 1
            ELSE UNCHANGED <<sess_vars, toggled, raised, name_taken>>
         /\ throttle_key' = IF OneShotFires(button_states, 4, button4) /\ ToggleRaises
                            THEN throttle_key
                            ELSE DpadKey(hat, throttle_key)
         /\ UNCHANGED r_key_pressed

\* handle_one_shot_button's "self.button_states[button_index] = False" for a
\* button not tracked yet
TrackButton(bs, b) == [x \in DOMAIN bs \cup {b} |-> ButtonState(bs, x)]

\* get_controller_inputs left by a KeyboardInterrupt after n of its steps
\* (0: none, with or without a controller; with a controller 1: steering_axis,
\* 2: throttle_axis, 3: the button tracked, 4: the button polled and its level
\* stored, 5: the toggle; the pad completes it), or inside the toggle
ControllerCuts == 0..5

get_controller_inputs_interrupted(sa, ta) ==
    /\ \E n \in ControllerCuts :
          /\ n >= 1 => joystick
          /\ n >= 5 => ~(OneShotFires(button_states, 4, button4) /\ ToggleRaises)
          /\ steering_axis' = IF n >= 1 THEN apply_deadzone(axis0, deadzone) ELSE sa
          /\ throttle_axis' = IF n >= 2 THEN ControllerThrottle(axis4) ELSE ta
          /\ button_states' = IF n >= 4 THEN OneShotStates(button_states, 4, button4)
                              ELSE IF n >= 3 THEN TrackButton(button_states, 4)
                              ELSE button_states
          /\ IF n >= 4
             THEN /\ one_shot_ret' = IF OneShotFires(button_states, 4, button4) THEN 1 ELSE 0
                  /\ seen4' = polled4 /\ polled4' = button4
             ELSE UNCHANGED <<one_shot_ret, seen4, polled4>>
          /\ \/ /\ n >= 5 /\ OneShotFires(button_states, 4, button4)
                /\ toggle_collecting /\ toggled' = toggled + 1
             \/ /\ n = 4 /\ OneShotFires(button_states, 4, button4)
                /\ toggle_collecting_interrupted /\ toggled' = toggled + 1
             \/ /\ n < 5 \/ ~OneShotFires(button_states, 4, button4)
                /\ UNCHANGED <<sess_vars, toggled, name_taken>>
    /\ UNCHANGED <<throttle_key, r_key_pressed>>

\* Mutant: a connected controller is read whatever the keyboard does
input_handler_controller_first ==
    /\ input_value' = IF controller_connection_check THEN 1 ELSE 0
    /\ IF controller_connection_check
       THEN get_controller_inputs(ResetAxis(steering_axis), ResetAxis(throttle_axis))
       ELSE IF keys # {}
       THEN get_keyboard_inputs(ResetAxis(steering_axis), ResetAxis(throttle_axis))
       ELSE /\ steering_axis' = ResetAxis(steering_axis)
            /\ throttle_axis' = ResetAxis(throttle_axis)
            /\ UNCHANGED <<throttle_key, r_key_pressed, button_states, sess_vars,
                           toggled, one_shot_ret, seen4, polled4, raised, name_taken>>

input_handler ==
    /\ input_value' = IF keys # {} THEN 0 ELSE 1
    /\ IF keys # {}
       THEN get_keyboard_inputs(ResetAxis(steering_axis), ResetAxis(throttle_axis))
       ELSE IF controller_connection_check
       THEN get_controller_inputs(ResetAxis(steering_axis), ResetAxis(throttle_axis))
       ELSE /\ steering_axis' = ResetAxis(steering_axis)
            /\ throttle_axis' = ResetAxis(throttle_axis)
            /\ UNCHANGED <<throttle_key, r_key_pressed, button_states, sess_vars,
                           toggled, one_shot_ret, seen4, polled4, raised, name_taken>>

\* input_handler left by a KeyboardInterrupt: after one or two of its own
\* assignments to the axes, or after input_value, before the method it calls,
\* inside it, or where it calls none
input_handler_interrupted ==
    \/ /\ steering_axis' = ResetAxis(steering_axis)
       /\ throttle_axis' \in {throttle_axis, ResetAxis(throttle_axis)}
       /\ UNCHANGED <<input_value, throttle_key, r_key_pressed, button_states, sess_vars,
                      toggled, one_shot_ret, seen4, polled4, name_taken>>
    \/ /\ input_value' = IF keys # {} THEN 0 ELSE 1
       /\ IF keys # {}
          THEN get_keyboard_inputs_interrupted(ResetAxis(steering_axis),
                                               ResetAxis(throttle_axis))
          ELSE IF controller_connection_check
          THEN get_controller_inputs_interrupted(ResetAxis(steering_axis),
                                                 ResetAxis(throttle_axis))
          ELSE /\ steering_axis' = ResetAxis(steering_axis)
               /\ throttle_axis' = ResetAxis(throttle_axis)
               /\ UNCHANGED <<throttle_key, r_key_pressed, button_states, sess_vars,
                              toggled, one_shot_ret, seen4, polled4, name_taken>>

\* Mutant: a controller that appears is never acquired
controller_reconnection_handler_drop_only ==
    IF joy_count = 0 /\ joystick
    THEN joystick' = FALSE /\ notice' = "disconnected"
    ELSE UNCHANGED <<joystick, notice>>

controller_reconnection_handler ==
    IF joy_count = 0
    THEN IF joystick
         THEN joystick' = FALSE /\ notice' = "disconnected"
         ELSE UNCHANGED <<joystick, notice>>
    ELSE IF ~joystick
         THEN joystick' = TRUE /\ notice' = "reconnected"
         ELSE UNCHANGED <<joystick, notice>>

\* controller_reconnection_handler left by a KeyboardInterrupt between its
\* print and its assignment (the print comes first on a disconnect, last on a
\* reconnect)
controller_reconnection_handler_interrupted ==
    \/ joy_count = 0 /\ joystick /\ notice' = "disconnected" /\ UNCHANGED joystick
    \/ joy_count # 0 /\ ~joystick /\ joystick' = TRUE /\ UNCHANGED notice

----------------------------------------------------------------------------
\* run(): one action per step of the loop

LoopPcs == {"pump", "reconnect", "input", "steering", "throttle",
            "update_steering", "update_throttle", "capture"}

\* "self.r_key_pressed = False; operating = True; try:"
Run ==
    /\ pc = "init"
    /\ pc' = "pump" /\ operating' = TRUE /\ r_key_pressed' = "False"
    /\ UNCHANGED <<clock, cleanup_runs, escaped, raised, name_taken, env_vars, sess_vars,
                   samp_vars, joystick, button_states, input_value,
                   steering_axis, throttle_axis, throttle_key,
                   out_vars, hist_vars, api_vars, cam_vars>>

\* "pg.event.pump()" and the event loop: the tick's device state arrives, and
\* possibly a QUIT event; the wall clock may have passed to the next second
PumpWith(keysets, joysamples, maxticks) ==
    /\ pc = "pump" /\ clock < maxticks
    /\ \E ks \in keysets, j \in joysamples, quit \in BOOLEAN :
          /\ keys' = ks /\ joy_count' = j.n /\ axis0' = j.a0 /\ axis4' = j.a4
          /\ button4' = j.b4 /\ hat' = j.hat
          /\ operating' = ~quit
    /\ name_taken' \in {name_taken, FALSE}
    /\ clock' = clock + 1
    /\ prev_keys' = keys /\ toggled' = 0 /\ one_shot_ret' = -1 /\ notice' = "none"
    /\ pc' = "reconnect"
    /\ UNCHANGED <<cleanup_runs, escaped, raised, sess_vars, samp_vars, ctl_vars, out_vars,
                   seen4, polled4, api_vars, cam_vars>>

Pump == PumpWith(KeySets, JoySamples, MaxTicks)

PumpBurst == PumpWith(BurstKeySets, BurstJoySamples, MaxBurstTicks)

PumpPad == PumpWith(PadKeySets, PadJoySamples, MaxPadTicks)

Reconnect ==
    /\ pc = "reconnect"
    /\ controller_reconnection_handler
    /\ pc' = "input"
    /\ UNCHANGED <<operating, clock, cleanup_runs, escaped, raised, name_taken, env_vars,
                   sess_vars, samp_vars, button_states, input_value, r_key_pressed,
                   steering_axis, throttle_axis, throttle_key, out_vars,
                   prev_keys, toggled, one_shot_ret, seen4, polled4, api_vars, cam_vars>>

\* input_handler(); an exception raised by it leaves the loop through "finally"
Input ==
    /\ pc = "input"
    /\ input_handler
    /\ pc' = IF raised' THEN "cleanup" ELSE "steering"
    /\ UNCHANGED <<operating, clock, cleanup_runs, escaped, env_vars, samp_vars,
                   joystick, out_vars, prev_keys, notice, api_vars, cam_vars>>

steering_handler == steering_ms_out' = SteeringMs(steering_axis)

throttle_handler == throttle_ms_out' = ThrottleMs(throttle_axis, throttle_key)

update_steering_duty == duty_steering' = Duty(steering_ms_out)

\* Mutant: the throttle is written without the connection test
update_throttle_duty_unguarded == duty_throttle' = Duty(throttle_ms_out)

update_throttle_duty ==
    duty_throttle' = IF controller_connection_check THEN Duty(throttle_ms_out) ELSE 0

Steering ==
    /\ pc = "steering"
    /\ steering_handler
    /\ pc' = "throttle"
    /\ UNCHANGED <<operating, clock, cleanup_runs, escaped, raised, name_taken, env_vars,
                   sess_vars, samp_vars, ctl_vars, throttle_ms_out, duty_steering,
                   duty_throttle, hist_vars, api_vars, cam_vars>>

Throttle ==
    /\ pc = "throttle"
    /\ throttle_handler
    /\ pc' = "update_steering"
    /\ UNCHANGED <<operating, clock, cleanup_runs, escaped, raised, name_taken, env_vars,
                   sess_vars, samp_vars, ctl_vars, steering_ms_out, duty_steering,
                   duty_throttle, hist_vars, api_vars, cam_vars>>

UpdateSteering ==
    /\ pc = "update_steering"
    /\ update_steering_duty
    /\ pc' = "update_throttle"
    /\ UNCHANGED <<operating, clock, cleanup_runs, escaped, raised, name_taken, env_vars,
                   sess_vars, samp_vars, ctl_vars, steering_ms_out, throttle_ms_out,
                   duty_throttle, hist_vars, api_vars, cam_vars>>

UpdateThrottle ==
    /\ pc = "update_throttle"
    /\ update_throttle_duty
    /\ pc' = "capture"
    /\ UNCHANGED <<operating, clock, cleanup_runs, escaped, raised, name_taken, env_vars,
                   sess_vars, samp_vars, ctl_vars, steering_ms_out, throttle_ms_out,
                   duty_steering, hist_vars, api_vars, cam_vars>>

\* capture_frame(), clock.tick(60) and the "while operating" test; an exception
\* raised by the capture leaves the loop through "finally"
Capture ==
    /\ pc = "capture"
    /\ \E ok \in BOOLEAN : capture_frame(ok)
    /\ pc' = IF raised' THEN "cleanup" ELSE IF operating THEN "pump" ELSE "cleanup"
    /\ UNCHANGED <<operating, clock, cleanup_runs, escaped, name_taken, env_vars,
                   collecting, session_dir, pin_rec, dirs, files,
                   ctl_vars, out_vars, hist_vars, api_vars, cam_vars>>

\* KeyboardInterrupt raised between two steps of the loop, or inside a step at
\* a point where the step has changed nothing yet or everything already (the
\* event loop before "operating = False", a handler of a single assignment):
\* "except KeyboardInterrupt" and "finally"
Interrupt ==
    /\ pc \in LoopPcs
    /\ pc' = "cleanup"
    /\ UNCHANGED <<operating, clock, cleanup_runs, escaped, raised, name_taken, env_vars,
                   sess_vars, samp_vars, ctl_vars, out_vars, hist_vars, api_vars, cam_vars>>

\* KeyboardInterrupt raised inside controller_reconnection_handler()
InterruptReconnect ==
    /\ pc = "reconnect"
    /\ controller_reconnection_handler_interrupted
    /\ pc' = "cleanup"
    /\ UNCHANGED <<operating, clock, cleanup_runs, escaped, raised, name_taken, env_vars,
                   sess_vars, samp_vars, button_states, input_value, r_key_pressed,
                   steering_axis, throttle_axis, throttle_key, out_vars,
                   prev_keys, toggled, one_shot_ret, seen4, polled4, api_vars, cam_vars>>

\* KeyboardInterrupt raised inside input_handler() or a method it calls
InterruptInput ==
    /\ pc = "input"
    /\ input_handler_interrupted
    /\ pc' = "cleanup"
    /\ UNCHANGED <<operating, clock, cleanup_runs, escaped, raised, env_vars, samp_vars,
                   joystick, out_vars, prev_keys, notice, api_vars, cam_vars>>

\* KeyboardInterrupt raised inside capture_frame()
InterruptCapture ==
    /\ pc = "capture"
    /\ \E k \in CaptureCuts : capture_frame_interrupted(k)
    /\ pc' = "cleanup"
    /\ UNCHANGED <<operating, clock, cleanup_runs, escaped, raised, name_taken, env_vars,
                   collecting, session_dir, pin_rec, dirs, files,
                   ctl_vars, out_vars, hist_vars, api_vars, cam_vars>>

\* KeyboardInterrupt raised in run() before the "try" is entered, with or
\* without line 338 executed: it leaves run() and cleanup() is not called
InterruptRun ==
    /\ pc = "init"
    /\ pc' = "done" /\ escaped' = TRUE
    /\ r_key_pressed' \in {r_key_pressed, "False"}
    /\ UNCHANGED <<operating, clock, cleanup_runs, raised, name_taken, env_vars, sess_vars,
                   samp_vars, joystick, button_states, input_value,
                   steering_axis, throttle_axis, throttle_key,
                   out_vars, hist_vars, api_vars, cam_vars>>

cleanup ==
    /\ stop_collecting
    /\ duty_steering' = 0
    /\ duty_throttle' = 0
    /\ pin_rec_mode' = "input"
    /\ camera_running' = FALSE

\* cleanup() left by a KeyboardInterrupt inside stop_collecting() (with nothing
\* assigned yet, or after some of its steps), or after m of the steps that follow
\* it (0: none, 1: the steering output, 2: the throttle output, 3: the indicator
\* pin's mode)
CleanupCuts == 0..3

cleanup_interrupted ==
    /\ \/ \E k \in StopCuts :
             /\ stop_collecting_interrupted(k)
             /\ UNCHANGED <<duty_steering, duty_throttle, pin_rec_mode>>
       \/ \E m \in CleanupCuts :
             /\ stop_collecting
             /\ duty_steering' = IF m >= 1 THEN 0 ELSE duty_steering
             /\ duty_throttle' = IF m >= 2 THEN 0 ELSE duty_throttle
             /\ pin_rec_mode' = IF m >= 3 THEN "input" ELSE pin_rec_mode
    /\ UNCHANGED camera_running

\* cleanup() with a KeyboardInterrupt raised inside camera.stop(): the bare
\* "except" swallows it and the camera may still run
cleanup_interrupt_swallowed ==
    /\ cam_connected
    /\ stop_collecting
    /\ duty_steering' = 0
    /\ duty_throttle' = 0
    /\ pin_rec_mode' = "input"
    /\ camera_running' \in {camera_running, FALSE}

\* "finally: self.cleanup()"
Cleanup ==
    /\ pc = "cleanup"
    /\ cleanup
    /\ cleanup_runs' = cleanup_runs + 1
    /\ pc' = "done"
    /\ UNCHANGED <<operating, clock, escaped, raised, name_taken, env_vars, samp_vars,
                   ctl_vars, steering_ms_out, throttle_ms_out, hist_vars, api_vars,
                   cam_connected, frame_interval>>

\* KeyboardInterrupt raised once the loop is left: in "finally" before line 370
\* has called cleanup(), inside cleanup(), or around a cleanup() that runs in
\* full (raised in the "except" block, which "finally" follows, or after
\* cleanup() has returned); run() is left by it, except from camera.stop()
InterruptCleanup ==
    /\ pc = "cleanup"
    /\ pc' = "done"
    /\ \/ /\ escaped' = TRUE
          /\ UNCHANGED <<cleanup_runs, sess_vars, duty_steering, duty_throttle,
                         pin_rec_mode, camera_running>>
       \/ /\ escaped' = TRUE
          /\ cleanup_runs' = cleanup_runs + 1
          /\ cleanup_interrupted
       \/ /\ escaped' = TRUE
          /\ cleanup_runs' = cleanup_runs + 1
          /\ cleanup
       \/ /\ UNCHANGED escaped
          /\ cleanup_runs' = cleanup_runs + 1
          /\ cleanup_interrupt_swallowed
    /\ UNCHANGED <<operating, clock, raised, name_taken, env_vars, samp_vars,
                   ctl_vars, steering_ms_out, throttle_ms_out, hist_vars, api_vars,
                   cam_connected, frame_interval>>

Next ==
    \/ Run \/ Pump \/ Reconnect \/ Input \/ Steering \/ Throttle
    \/ UpdateSteering \/ UpdateThrottle \/ Capture \/ Cleanup
    \/ Interrupt \/ InterruptRun \/ InterruptReconnect \/ InterruptInput
    \/ InterruptCapture \/ InterruptCleanup

Spec == Init /\ [][Next]_vars

\* No controller is ever plugged here, so controller_reconnection_handler assigns
\* nothing and an interrupt inside it is the Interrupt that follows it
NextBurst ==
    \/ Run \/ PumpBurst \/ Reconnect \/ Input \/ Steering \/ Throttle
    \/ UpdateSteering \/ UpdateThrottle \/ Capture \/ Cleanup
    \/ Interrupt \/ InterruptRun \/ InterruptInput
    \/ InterruptCapture \/ InterruptCleanup

SpecBurst == InitBurst /\ [][NextBurst]_vars

NextPad ==
    \/ Run \/ PumpPad \/ Reconnect \/ Input \/ Steering \/ Throttle
    \/ UpdateSteering \/ UpdateThrottle \/ Capture \/ Cleanup
    \/ Interrupt \/ InterruptRun \/ InterruptReconnect \/ InterruptInput
    \/ InterruptCapture \/ InterruptCleanup

SpecPad == Init /\ [][NextPad]_vars

----------------------------------------------------------------------------
\* The session methods called directly on a constructed DataCollector

\* The wall clock may pass to the next second before a call
ApiCall(name) ==
    /\ pc = "init" /\ api_n < MaxCalls
    /\ api_n' = api_n + 1 /\ api_prev' = api_call /\ api_call' = name

CallStart ==
    /\ ApiCall("start")
    /\ \E passed \in BOOLEAN : start_collecting(name_taken /\ ~passed)
    /\ UNCHANGED <<run_vars, env_vars, samp_vars, ctl_vars, out_vars,
                   hist_vars, cam_vars>>

CallStop ==
    /\ ApiCall("stop")
    /\ stop_collecting
    /\ name_taken' \in {name_taken, FALSE}
    /\ UNCHANGED <<run_vars, raised, env_vars, samp_vars, ctl_vars, out_vars,
                   hist_vars, cam_vars>>

CallCapture ==
    /\ ApiCall("capture")
    /\ \E ok \in BOOLEAN : capture_frame(ok)
    /\ name_taken' \in {name_taken, FALSE}
    /\ UNCHANGED <<run_vars, env_vars, collecting, session_dir, pin_rec, dirs, files,
                   ctl_vars, out_vars, hist_vars, cam_vars>>

NextApi == CallStart \/ CallStop \/ CallCapture

SpecApi == Init /\ [][NextApi]_vars

----------------------------------------------------------------------------
\* Properties

\* The input step of the current tick has run and the tick's device state is
\* still the one it read
AfterInput == pc \in {"steering", "throttle", "update_steering", "update_throttle", "capture"}

\* Both actuator outputs of the current tick have been written
OutputsWritten == pc = "capture"

KeyPlusMinus(ks, plus, minus) ==
    (IF plus \in ks THEN 1 ELSE 0) - (IF minus \in ks THEN 1 ELSE 0)

\* C1: on a tick where the record key R is down, the recording toggle is invoked
\* exactly once if R was up on the previous tick, and not at all if R was already
\* down on the previous tick (one toggle per press, re-armed by release).
C1_RecordKeyTogglesOncePerPress ==
    (AfterInput /\ "R" \in keys) =>
        /\ ("R" \notin prev_keys => toggled = 1)
        /\ ("R" \in prev_keys => toggled = 0)

\* C2: a poll of the controller record button through handle_one_shot_button
\* detects a press exactly when the button is down and was not down at the
\* previous poll (or was never polled), so a held button is detected once, on the
\* first poll that sees it down, and again only after a poll has seen it released;
\* the toggle is invoked only on a detection, and once on each detection of an
\* input step that was not interrupted.
C2_OneShotDetectsOncePerPress ==
    one_shot_ret # -1 =>
        /\ (one_shot_ret = 1) <=> (button4 = 1 /\ seen4 # 1)
        /\ polled4 = button4
        /\ toggled \in {0, one_shot_ret}
        /\ (pc \in LoopPcs => toggled = one_shot_ret)

\* C2 witness: the button is seen down on two polls in a row, and the second
\* poll detects nothing
C2_Witness_HeldButtonNotDetectedAgain ==
    /\ AfterInput /\ one_shot_ret = 0 /\ button4 = 1 /\ seen4 = 1 /\ toggled = 0

\* C3: a sensor read error on a sampling tick is non-fatal: the step on which the
\* capture fails (the process not having been asked to quit) appends no label and
\* writes no image, goes on to the next tick, and leaves recording active.
C3_CaptureErrorSkipsSample ==
    [][(capture_errors' > capture_errors /\ pc = "capture" /\ operating) =>
          /\ steering_data' = steering_data /\ images' = images
          /\ collecting'
          /\ pc' = "pump"]_vars

\* C4: after the input step the axes are those of the keyboard mapping if any key
\* is pressed, else those of the controller mapping if a controller is connected,
\* else both zero; nothing of the previous tick's axes remains.
C4_SourcePriority ==
    AfterInput =>
        IF keys # {}
        THEN /\ steering_axis = AxisUnit * KeyPlusMinus(keys, "RIGHT", "LEFT")
             /\ throttle_axis = 2 * AxisUnit * KeyPlusMinus(keys, "UP", "DOWN")
             /\ input_value = 0
        ELSE IF joy_count # 0
        THEN /\ steering_axis = (IF -deadzone < axis0 /\ axis0 < deadzone THEN 0 ELSE axis0)
             /\ throttle_axis = axis4 + AxisUnit
             /\ input_value = 1
        ELSE /\ steering_axis = 0 /\ throttle_axis = 0
             /\ input_value = 1

\* C4 witness: no key and no controller on a tick that follows a tick with a
\* steered, throttled pulse: the axes are zero although the previous pulses are
\* still in place
C4_Witness_NoSourceAfterDriving ==
    /\ pc = "steering" /\ keys = {} /\ joy_count = 0
    /\ steering_ms_out # steering_ms_centered
    /\ throttle_ms_out # throttle_ms_centered
    /\ steering_axis = 0 /\ throttle_axis = 0

\* C5: once a tick has written both outputs, the throttle output is zero if no
\* controller is connected, whatever throttle pulse was computed; the steering
\* output is the computed steering pulse; and with no controller the steering
\* pulse is the one of the held keys (the centered pulse when none is held).
C5_ThrottleZeroWithoutController ==
    OutputsWritten =>
        /\ (joy_count = 0 => duty_throttle = 0)
        /\ duty_steering = freq * steering_ms_out
        /\ (joy_count = 0 =>
               steering_ms_out = steering_ms_centered
                                 + steering_ms_range * KeyPlusMinus(keys, "RIGHT", "LEFT"))

\* C5 witness: the controller has just been found disconnected, a non-neutral
\* throttle pulse has been computed from the keys, and zero has been written
C5_Witness_DisconnectForcesThrottleOff ==
    /\ OutputsWritten /\ joy_count = 0 /\ notice = "disconnected"
    /\ throttle_ms_out # throttle_ms_centered
    /\ duty_throttle = 0
    /\ duty_steering # 0

\* C6: teardown has not run while the loop runs or has just ended, and has run
\* exactly once when the program is done after a tick of the loop; then recording
\* is inactive, the label log of the last session, if not empty, is in a label
\* file of that session, and both actuator outputs are zero.
C6_TeardownOnceOnEveryExit ==
    /\ (pc \in LoopPcs \cup {"init", "cleanup"} => cleanup_runs = 0)
    /\ (pc = "done" /\ clock > 0 =>
           /\ cleanup_runs = 1
           /\ ~collecting /\ pin_rec = 0
           /\ duty_steering = 0 /\ duty_throttle = 0
           /\ (steering_data # <<>> =>
                  \E i \in 1..Len(files) :
                      files[i] = LabelFile(session_dir, steering_data)))

\* The multiples of the interval up to the tick counter, in order
DueTicks(count, interval) == [k \in 1..(count \div interval) |-> k * interval]

\* C7 as stated: the frames of the session were captured on exactly the ticks of
\* the session whose counter value is a multiple of the interval.
C7_CapturesExactlyOnMultiples ==
    capture_ticks = DueTicks(frame_count, frame_interval)

\* The capture of the session that failed or was interrupted, if any
LostCaptures == capture_errors + capture_cuts

\* C7 amended: the frames of the session were captured on exactly the ticks whose
\* counter value is a multiple of the interval and whose capture was completed:
\* the k-th frame on tick k * interval; while the loop runs every multiple is
\* covered, and after a sensor read that failed or a capture that an interrupt
\* cut short, every multiple but that last one; with interval 5 and 12 active
\* ticks, 2 frames, on ticks 5 and 10, with frame_index 0 and 1.
C7_CapturesOnMultiplesReadOk ==
    /\ \A k \in 1..Len(capture_ticks) : capture_ticks[k] = k * frame_interval
    /\ Len(steering_data) = Len(capture_ticks)
    /\ LostCaptures \in {0, 1}
    /\ Len(capture_ticks) <= (frame_count \div frame_interval) - LostCaptures
    /\ (pc \in LoopPcs => LostCaptures = 0)
    /\ (pc \in LoopPcs \/ LostCaptures = 1 =>
           Len(capture_ticks) = (frame_count \div frame_interval) - LostCaptures)
    /\ (pc \in LoopPcs /\ frame_interval = 5 /\ frame_count = 12 =>
           /\ capture_ticks = <<5, 10>>
           /\ Len(steering_data) = 2
           /\ steering_data[1].frame = 0 /\ steering_data[2].frame = 1)

\* C7 witness: 12 active ticks at interval 5
C7_Witness_TwelveActiveTicks ==
    /\ pc \in LoopPcs /\ collecting /\ frame_interval = 5 /\ frame_count = 12
    /\ capture_ticks = <<5, 10>> /\ Len(steering_data) = 2

\* The k-th record of the label log has frame_index k - 1
DenseLog == \A k \in 1..Len(steering_data) : steering_data[k].frame = k - 1

\* C8 as stated: the label log is dense and as long as the number of active ticks
\* of the session that satisfied the decimation condition.
C8_LogDenseAndCountsDueTicks ==
    /\ DenseLog
    /\ Len(steering_data) = frame_count \div frame_interval

\* C8 amended: the label log is dense in every reachable state; while the loop
\* runs it is as long as the number of active ticks of the session that satisfied
\* the decimation condition, and after a sensor read that failed or a capture
\* that an interrupt cut short, one shorter; it is never longer.
C8_LogDenseAndCountsCaptures ==
    /\ DenseLog
    /\ LostCaptures \in {0, 1}
    /\ Len(steering_data) <= (frame_count \div frame_interval) - LostCaptures
    /\ (pc \in LoopPcs => LostCaptures = 0)
    /\ (pc \in LoopPcs \/ LostCaptures = 1 =>
           Len(steering_data) = (frame_count \div frame_interval) - LostCaptures)

\* C8 witness: a second session has a record, numbered from 0 again, after a
\* first session that had records
C8_Witness_SecondSessionRestartsAtZero ==
    /\ collecting /\ dirs = 2 /\ Len(files) = 1
    /\ Len(steering_data) = 1 /\ steering_data[1].frame = 0

\* C9: a direct call of start_collecting() while a session is active changes
\* neither the session directory, the number of directories created, the frame
\* counter, the label log, the active flag, the indicator output nor the files.
C9_StartWhileActiveIsNoOp ==
    [][(api_n' = api_n + 1 /\ api_call' = "start" /\ collecting) =>
          UNCHANGED <<collecting, session_dir, dirs, frame_count, steering_data,
                      pin_rec, files, images>>]_vars

\* C9 witness: start was called on an active session that had counted a tick and
\* logged a frame; the session is as it was
C9_Witness_StartCalledWhileActive ==
    /\ api_call = "start" /\ api_prev = "capture"
    /\ collecting /\ dirs = 1 /\ frame_count = 1 /\ Len(steering_data) = 1 /\ pin_rec = 1

\* C10: a direct call of stop_collecting() on an active session clears the active
\* flag, turns the indicator off and writes one label file if the log is not
\* empty; a call made while inactive (such as a second call in a row) changes no
\* state and writes no file.
C10_StopIsIdempotent ==
    [][(api_n' = api_n + 1 /\ api_call' = "stop") =>
          IF collecting
          THEN /\ ~collecting' /\ pin_rec' = 0
               /\ Len(files') = Len(files) + (IF steering_data # <<>> THEN 1 ELSE 0)
          ELSE UNCHANGED <<collecting, session_dir, dirs, frame_count, steering_data,
                           pin_rec, files, images>>]_vars

\* C10 witness: stop was called twice in a row on a session with a logged frame,
\* and one label file exists
C10_Witness_StoppedTwice ==
    /\ api_call = "stop" /\ api_prev = "stop"
    /\ dirs = 1 /\ Len(steering_data) = 1 /\ Len(files) = 1 /\ ~collecting

\* A step of the loop from one position of the tick to the next
LoopStep(from, to) == pc = from /\ pc' = to

\* C11: the input step of a tick invokes the recording toggle at most once,
\* whatever keys and controller buttons are down; an invoked toggle stops an
\* active recording and otherwise starts one (if the sensor is connected), never
\* both, and no other step of the tick changes the recording-active flag.
C11_AtMostOneToggleStepPerTick ==
    [][/\ LoopStep("input", "steering") =>
             /\ toggled' \in {0, 1}
             /\ (toggled' = 0 => collecting' = collecting /\ dirs' = dirs /\ files' = files)
             /\ (toggled' = 1 /\ collecting =>
                    ~collecting' /\ dirs' = dirs /\ session_dir' = session_dir)
             /\ (toggled' = 1 /\ ~collecting =>
                    collecting' = cam_connected /\ files' = files)
       /\ (pc \in LoopPcs \ {"input"} /\ pc' \in LoopPcs) => collecting' = collecting]_vars

\* C11 witness: the record key and the controller record button are both newly
\* down on the same tick, and the tick has toggled once: recording is on
C11_Witness_KeyAndButtonTogether ==
    /\ AfterInput /\ "R" \in keys /\ "R" \notin prev_keys
    /\ joy_count = 1 /\ button4 = 1 /\ ~ButtonState(button_states, 4)
    /\ toggled = 1 /\ collecting /\ dirs = 1

\* C12: with raw controller axes within [-1, 1], the computed steering pulse lies
\* within [centered - range, centered + range] and the computed throttle pulse
\* within [centered - range, centered + range], whatever the throttle boost.
C12_PulsesWithinCalibratedRange ==
    (Abs(axis0) <= AxisUnit /\ Abs(axis4) <= AxisUnit) =>
        /\ steering_ms_centered - steering_ms_range <= steering_ms_out
        /\ steering_ms_out <= steering_ms_centered + steering_ms_range
        /\ throttle_ms_centered - throttle_ms_range <= throttle_ms_out
        /\ throttle_ms_out <= throttle_ms_centered + throttle_ms_range

\* C12 witness: both pulses computed at the upper end of their ranges, from a
\* boost latched on an earlier tick
C12_Witness_BothPulsesAtUpperEnd ==
    /\ pc = "update_steering" /\ "SPACE" \notin keys /\ throttle_key = KeyUnit
    /\ steering_ms_out = steering_ms_centered + steering_ms_range
    /\ throttle_ms_out = throttle_ms_centered + throttle_ms_range

\* C13: with the sensor not connected no session is ever active: no session
\* directory is created and the indicator stays off, so recording active implies
\* sensor connected; and the loop still writes the tick's computed steering pulse
\* and throttle pulse (zero without a controller) to the actuators.
C13_NoRecordingWithoutSensor ==
    /\ collecting => cam_connected
    /\ ~cam_connected =>
          /\ dirs = 0 /\ session_dir = 0 /\ pin_rec = 0 /\ files = <<>> /\ images = {}
          /\ OutputsWritten =>
                /\ duty_steering = freq * steering_ms_out
                /\ duty_throttle = IF joy_count = 0 THEN 0 ELSE freq * throttle_ms_out

\* C13 witness: without a sensor, a tick has invoked the toggle, nothing is
\* recording, and steered and throttled pulses have been written
C13_Witness_ToggleRefusedDrivingGoesOn ==
    /\ ~cam_connected /\ OutputsWritten /\ toggled = 1 /\ ~collecting
    /\ duty_steering # freq * steering_ms_centered
    /\ duty_throttle # 0 /\ duty_throttle # freq * throttle_ms_centered

\* This tick's input step handles no directional-pad input
NoPadInput == keys # {} \/ joy_count = 0 \/ hat = <<0, 0>>

\* C14 as stated: on the tick after one with the boost key down, with the boost
\* key up and no pad input, the boost is no longer the keyboard boost scalar.
C14_KeyboardBoostLastsOneTick ==
    (AfterInput /\ "SPACE" \in prev_keys /\ "SPACE" \notin keys /\ NoPadInput) =>
        throttle_key # KeyUnit

\* C14 amended: the keyboard boost is sticky: an input step of a tick with the
\* boost key down sets the boost to the keyboard boost scalar, and an input step
\* of a tick with the boost key up and no pad input leaves the boost as it was,
\* so the boost stays the keyboard scalar until a pad input overwrites it.
C14_KeyboardBoostIsSticky ==
    [][LoopStep("input", "steering") =>
          /\ ("SPACE" \in keys => throttle_key' = KeyUnit)
          /\ ("SPACE" \notin keys /\ NoPadInput => throttle_key' = throttle_key)]_vars

\* C14 witness: the boost key was down on the previous tick, no key is down and
\* no pad input arrives on this one, and the boost is still the keyboard scalar
C14_Witness_BoostKeptAfterRelease ==
    /\ AfterInput /\ "SPACE" \in prev_keys /\ keys = {} /\ joy_count = 1 /\ hat = <<0, 0>>
    /\ throttle_key = KeyUnit

\* The images written for session s
ImagesOf(s) == {im \in images : im[1] = s}

\* C15: a direct call of stop_collecting() on an active session writes the label
\* file exactly when the label log is not empty, and the file holds the label log
\* as it is: one entry for each frame captured in the session, in capture order
\* (the k-th entry has frame index k - 1 and its image exists); a session in
\* which no frame was captured gets no label file.
C15_StopWritesLogIffNonEmpty ==
    [][(api_n' = api_n + 1 /\ api_call' = "stop" /\ collecting) =>
          /\ files' = IF steering_data # <<>>
                      THEN Append(files, LabelFile(session_dir, steering_data))
                      ELSE files
          /\ Len(steering_data) = Len(capture_ticks)
          /\ Cardinality(ImagesOf(session_dir)) = Len(steering_data)
          /\ \A k \in 1..Len(steering_data) :
                /\ steering_data[k].frame = k - 1
                /\ <<session_dir, k - 1>> \in images
                /\ k > 1 => capture_ticks[k - 1] < capture_ticks[k]
          /\ (capture_ticks = <<>> => files' = files)]_vars

\* C15 witness: stop was called on a first session with a logged frame, which
\* has its file, and then on a second session without any, which has none
C15_Witness_FileForFirstSessionOnly ==
    /\ api_call = "stop" /\ ~collecting /\ dirs = 2 /\ session_dir = 2
    /\ steering_data = <<>> /\ ImagesOf(2) = {}
    /\ Len(files) = 1 /\ files[1].session = 1 /\ files[1].complete
    /\ Len(files[1].data) >= 1 /\ files[1].data[1].frame = 0

\* C16: the hot-plug step leaves a controller tracked exactly if one is present;
\* it prints the disconnect notice exactly when a tracked controller is absent
\* and the reconnect notice exactly when an untracked controller is present; and
\* the input step that follows a reconnect on the same tick, no key being down,
\* polls the controller and takes its axes.
C16_HotPlugBeforeArbitration ==
    [][/\ LoopStep("reconnect", "input") =>
             /\ joystick' = (joy_count # 0)
             /\ (notice' = "disconnected") = (joystick /\ joy_count = 0)
             /\ (notice' = "reconnected") = (~joystick /\ joy_count # 0)
       /\ (LoopStep("input", "steering") /\ notice = "reconnected" /\ keys = {}) =>
             /\ one_shot_ret' = (IF button4 = 1 /\ ~ButtonState(button_states, 4)
                                 THEN 1 ELSE 0)
             /\ steering_axis' = (IF Abs(axis0) < deadzone THEN 0 ELSE axis0)
             /\ throttle_axis' = axis4 + AxisUnit
       /\ (pc # "reconnect" /\ pc' # "reconnect") =>
             joystick' = joystick /\ notice' = notice]_vars

\* C16 witness: a controller found on this tick has already been polled on it:
\* its record button has started a recording and its stick steers
C16_Witness_ReconnectedControllerUsedSameTick ==
    /\ AfterInput /\ notice = "reconnected" /\ keys = {}
    /\ one_shot_ret = 1 /\ collecting /\ steering_axis = -AxisUnit

\* This tick's input step reads the controller
ControllerTick == keys = {} /\ joy_count # 0 /\ joystick

\* C17: the input step of a controller tick sets the boost from the pad: up gives
\* the positive boost, down the negative boost, left or right with the vertical
\* neutral gives 0, and a released pad leaves the boost as it was.
C17_PadDrivesStickyBoost ==
    [][(LoopStep("input", "steering") /\ ControllerTick) =>
          /\ (hat[2] = 1 => throttle_key' = KeyUnit)
          /\ (hat[2] = -1 => throttle_key' = KeyReverse)
          /\ (hat[2] = 0 /\ hat[1] # 0 => throttle_key' = 0)
          /\ (hat = <<0, 0>> => throttle_key' = throttle_key)]_vars

\* C17 witness: a controller tick with the pad released keeps the negative boost
\* that the pad set on an earlier tick
C17_Witness_ReleasedPadKeepsBoost ==
    /\ AfterInput /\ ControllerTick /\ hat = <<0, 0>> /\ throttle_key = KeyReverse

\* C18: a step that appends a label record gives it the steering pulse computed
\* on the same tick from the tick's resolved steering axis, which is the pulse
\* whose duty the tick wrote to the steering actuator; the earlier records are
\* left as they are.
C18_RecordCarriesThisTicksPulse ==
    [][(pc = "capture" /\ Len(steering_data') > Len(steering_data)) =>
          LET rec == steering_data'[Len(steering_data')] IN
          /\ Len(steering_data') = Len(steering_data) + 1
          /\ SubSeq(steering_data', 1, Len(steering_data)) = steering_data
          /\ rec.steering_value
                = steering_ms_centered + (steering_ms_range * steering_axis) \div AxisUnit
          /\ freq * rec.steering_value = duty_steering
          /\ rec.timestamp = clock]_vars

\* C18 witness: two records of one session carry different pulses, the second
\* one the pulse of the tick that has just sampled
C18_Witness_RecordsFollowTheSteering ==
    /\ pc = "pump" /\ collecting /\ Len(steering_data) = 2
    /\ steering_data[2].timestamp = clock
    /\ steering_data[2].steering_value = steering_ms_out
    /\ steering_data[1].steering_value # steering_ms_out
    /\ steering_ms_out # steering_ms_centered

\* C19: the input step of a tick with a key down takes nothing from the
\* controller: the axes are the key mapping, the boost changes only by the boost
\* key, the toggle is invoked only by a new press of the record key, the
\* controller button is not polled and its tracked level is left as it was.
C19_KeyboardTickIgnoresController ==
    [][(LoopStep("input", "steering") /\ keys # {}) =>
          /\ steering_axis' = AxisUnit * KeyPlusMinus(keys, "RIGHT", "LEFT")
          /\ throttle_axis' = 2 * AxisUnit * KeyPlusMinus(keys, "UP", "DOWN")
          /\ throttle_key' = (IF "SPACE" \in keys THEN KeyUnit ELSE throttle_key)
          /\ toggled' = (IF "R" \in keys /\ r_key_pressed = "False" THEN 1 ELSE 0)
          /\ (toggled' = 0 => UNCHANGED <<collecting, session_dir, dirs, files, pin_rec>>)
          /\ button_states' = button_states
          /\ one_shot_ret' = -1 /\ polled4' = polled4 /\ seen4' = seen4]_vars

\* C19 witness: keys are down while a connected controller has its stick over,
\* its record button down and its pad up; nothing was toggled, the button is not
\* tracked as down and the boost is not the pad's
C19_Witness_ControllerIgnored ==
    /\ AfterInput /\ keys = {"DOWN", "SPACE"} /\ joy_count = 1 /\ joystick
    /\ axis0 = -AxisUnit /\ button4 = 1 /\ hat = <<0, -1>>
    /\ steering_axis = 0 /\ toggled = 0 /\ ~collecting
    /\ ~ButtonState(button_states, 4) /\ throttle_key # KeyReverse

\* C20: at every step of the running loop, the tick boundaries in particular,
\* the recording indicator is on exactly if recording is active.
C20_IndicatorFollowsRecording ==
    pc \in LoopPcs =>
        /\ pin_rec \in {0, 1}
        /\ (pin_rec = 1) = collecting

\* C20 witness: at a tick boundary, after a session was started and stopped from
\* the controls, the indicator is off again
C20_Witness_IndicatorOffAfterStop ==
    /\ pc = "pump" /\ dirs = 1 /\ ~collecting /\ pin_rec = 0 /\ toggled = 1

====
